---- MODULE Spec2Model ----
(***************************************************************************)
(* NetMikoMCPServer (mcp_server.py): the registry of device configurations *)
(* and live connections, the six tool operations, the tool dispatcher and  *)
(* the single asyncio event loop that runs them.  The transport (netmiko   *)
(* ConnectHandler) is the environment: each transport call is a step that  *)
(* is in flight until it returns or raises.                                *)
(***************************************************************************)
EXTENDS Integers, Sequences, FiniteSets, TLC

\* ---------------------------------------------------------------- bounds
MaxHandles == 2

\* ------------------------------------------------------- program constants
DefaultPort == 22
DefaultTimeout == 30
DefaultSessionTimeout == 60

None == "None"
Ids == {"r1", "r2"}
Handles == 1..MaxHandles

\* Arguments of connect_device other than device_id.  P1 relies on the
\* defaults (port, secret, timeout); P2 sets all of them.
P1 == [host |-> "10.0.0.1", device_type |-> "cisco_ios", username |-> "a",
       password |-> "pw1", port |-> DefaultPort, secret |-> None,
       timeout |-> DefaultTimeout]
P2 == [host |-> "10.0.0.2", device_type |-> "linux", username |-> "b",
       password |-> "pw2", port |-> 2222, secret |-> "en2", timeout |-> 5]
ConnectArgs == {P1, P2}

\* @dataclass DeviceConfig: the connect arguments plus session_timeout.
DeviceConfig(p) ==
    [host |-> p.host, device_type |-> p.device_type, username |-> p.username,
     password |-> p.password, port |-> p.port, secret |-> p.secret,
     timeout |-> p.timeout, session_timeout |-> DefaultSessionTimeout]

\* device_params handed to ConnectHandler: secret only if it is truthy.
DeviceParams(p) ==
    [device_type |-> p.device_type, host |-> p.host, username |-> p.username,
     password |-> p.password, port |-> p.port, timeout |-> p.timeout,
     secret |-> IF p.secret # None THEN p.secret ELSE None]

\* The credentials a connection was opened with.
Credentials(dp) == {dp.password} \cup (IF dp.secret # None THEN {dp.secret} ELSE {})

\* Exceptions the transport raises: the netmiko class, and whether the
\* exception text echoes the connection parameters.
ExcTypes == {"NetmikoAuthenticationException", "NetmikoTimeoutException", "Exception"}
Excs == [type : ExcTypes, echo : BOOLEAN]

\* What the operations other than connect catch with `except Exception`:
\* the class makes no difference there.
AnyExcs == {e \in Excs : e.type = "Exception"}

\* str(e): the strings of the connection parameters the text contains.
ExcText(e, dp) == IF e.echo THEN Credentials(dp) ELSE {}

Commands == {"show version"}
CommandLists == {<<"conf a", "conf b">>, <<"conf b", "conf a">>}

\* Argument bags that do not fit the signature of _connect_device: required
\* arguments missing, and an argument it does not have.
BadCalls ==
    [op : {"connect_device"}, device_id : Ids]
    \cup {[op |-> "connect_device", device_id |-> "r1", args |-> P1, enable |-> TRUE]}

\* The tool calls a client can issue (name and argument bag).
Calls ==
    BadCalls \cup
    [op : {"connect_device"}, device_id : Ids, args : ConnectArgs]
    \cup [op : {"disconnect_device", "get_device_info"}, device_id : Ids]
    \cup [op : {"send_command"}, device_id : Ids, command : Commands,
          use_textfsm : BOOLEAN]
    \cup [op : {"send_config_commands"}, device_id : Ids, commands : CommandLists]
    \cup [op : {"list_connected_devices", "no_such_tool"}]

\* The ids whose connect/disconnect history is followed (the operations
\* treat every id alike).
Watched == {"r1"}

VARIABLES
    phase,          \* "load": cli start is preloading; "serve": server.run()
    device_configs, \* self.device_configs: dict device_id -> DeviceConfig
    connections,    \* self.connections: dict in insertion order, <<[id, conn]>>
    channels,       \* the transport: per handle, what was opened and its state
    running,        \* tool calls started and not yet returned
    last,           \* the response handle_call_tool has returned, until it is delivered
    connectCalled,  \* ids _connect_device has been called with
    track           \* per id, its connect/disconnect calls so far (short prefix)

vars == <<phase, device_configs, connections, channels, running, last,
          connectCalled, track>>

\* ------------------------------------------------------------ dict helpers
Keys(d) == {d[i].id : i \in 1..Len(d)}
Has(d, id) == id \in Keys(d)
IndexOf(d, id) == CHOOSE i \in 1..Len(d) : d[i].id = id
Get(d, id) == d[IndexOf(d, id)].conn
\* d[id] = conn: an existing key keeps its position, a new key goes last.
Put(d, id, conn) ==
    IF Has(d, id)
    THEN [d EXCEPT ![IndexOf(d, id)] = [id |-> id, conn |-> conn]]
    ELSE Append(d, [id |-> id, conn |-> conn])
\* Mutant: d.clear(), every entry goes.
DelAll(d, id) == <<>>

\* del d[id]
Del(d, id) == SelectSeq(d, LAMBDA e : e.id # id)

\* Mutant: the configuration is not stored.
PutConfigLost(d, id, cfg) == d

\* Mutant: device_configs.setdefault(id, cfg), an existing entry is kept.
PutConfigIfAbsent(d, id, cfg) ==
    [x \in (DOMAIN d) \cup {id} |-> IF x \in DOMAIN d THEN d[x] ELSE cfg]

\* device_configs[id] = cfg
PutConfig(d, id, cfg) ==
    [x \in (DOMAIN d) \cup {id} |-> IF x = id THEN cfg ELSE d[x]]

\* ------------------------------------------------------------ result texts
\* Each f-string of mcp_server.py, as a record of its literal part (kind)
\* and of the values interpolated into it.
MsgConnected(id, host, prompt) ==
    [kind |-> "Successfully connected to device", device_id |-> id,
     host |-> host, prompt |-> prompt]
MsgAuthFailed(id, e) ==
    [kind |-> "Authentication failed for device", device_id |-> id, e |-> e]
MsgTimeout(id, e) ==
    [kind |-> "Connection timeout for device", device_id |-> id, e |-> e]
MsgConnectFailed(id, e) ==
    [kind |-> "Failed to connect to device", device_id |-> id, e |-> e]
MsgNotConnected(id) == [kind |-> "is not connected", device_id |-> id]
MsgDisconnected(id) ==
    [kind |-> "Successfully disconnected from device", device_id |-> id]
MsgDisconnectError(id, e) ==
    [kind |-> "Error disconnecting from device", device_id |-> id, e |-> e]
MsgConnectFirst(id) ==
    [kind |-> "is not connected. Please connect first.", device_id |-> id]
MsgCommand(command, formatted_output) ==
    [kind |-> "Command", command |-> command, output |-> formatted_output]
MsgCommandError(id, e) ==
    [kind |-> "Error executing command on device", device_id |-> id, e |-> e]
MsgConfig(joined, output) ==
    [kind |-> "Configuration commands executed", commands |-> joined,
     output |-> output]
MsgConfigError(id, e) ==
    [kind |-> "Error executing config commands on device", device_id |-> id,
     e |-> e]
MsgInfo(device_info) == [kind |-> "device_info", json |-> device_info]
MsgInfoError(id, e) ==
    [kind |-> "Error getting device info for", device_id |-> id, e |-> e]
MsgNoDevices == [kind |-> "No devices currently connected"]
MsgList(connected_devices) == [kind |-> "connected_devices", json |-> connected_devices]
MsgError(e) == [kind |-> "Error", e |-> e]

\* Mutant: a single `except Exception` clause answers every failure.
ConnectFailureCatchAll(id, e, text) == MsgConnectFailed(id, text)

\* The except clauses of _connect_device, in order.
ConnectFailure(id, e, text) ==
    IF e.type = "NetmikoAuthenticationException" THEN MsgAuthFailed(id, text)
    ELSE IF e.type = "NetmikoTimeoutException" THEN MsgTimeout(id, text)
    ELSE MsgConnectFailed(id, text)

\* Mutant: the commands are reported last first.
RECURSIVE JoinNLReversed(_)
JoinNLReversed(cmds) ==
    IF Len(cmds) = 0 THEN <<>>
    ELSE IF Len(cmds) = 1 THEN <<cmds[1]>>
    ELSE JoinNLReversed(Tail(cmds)) \o <<"\n", cmds[1]>>

\* chr(10).join(commands)
RECURSIVE JoinNL(_)
JoinNL(cmds) ==
    IF Len(cmds) = 0 THEN <<>>
    ELSE IF Len(cmds) = 1 THEN <<cmds[1]>>
    ELSE <<cmds[1], "\n">> \o JoinNL(Tail(cmds))

\* json.dumps(output) if use_textfsm and the output is a list, else str(output)
FormatOutput(use_textfsm, output) ==
    IF use_textfsm /\ output.shape = "list"
    THEN [fmt |-> "json", of |-> output]
    ELSE [fmt |-> "str", of |-> output]

\* What an operation hands back to its caller: a text, or an exception.
Returned(text) == [raised |-> FALSE, text |-> text]
Raised(text) == [raised |-> TRUE, text |-> text]

\* Mutant: without the except clause the exception leaves handle_call_tool.
HandleCallToolReraise(outcome) ==
    IF outcome.raised THEN [kind |-> "raised", e |-> outcome.text] ELSE outcome.text

\* handle_call_tool: an exception escaping the operation becomes "Error: ...".
HandleCallTool(outcome) ==
    IF outcome.raised THEN MsgError(outcome.text) ELSE outcome.text

\* ------------------------------------------------------------- event loop
\* The operations are coroutines without any await inside, and every
\* transport call is a blocking call on the loop's only thread: a tool call
\* starts only when no other one is running.
\* Mutant: the transport calls are awaited (run in worker threads), so the
\* loop takes the next call while one is inside a transport call.
LoopNeverBusy == TRUE

LoopIdle == running = {}

\* Mutant: the check looks the id up in device_configs.
IsKnown(id) == id \in DOMAIN device_configs

\* `device_id not in self.connections` negated.
IsConnected(id) == Has(connections, id)

FreeHandles == {h \in Handles : channels[h].state = "unopened"}
NewHandle == CHOOSE h \in FreeHandles : \A g \in FreeHandles : h <= g

\* self.connections as a call finds it when it starts.
Registry == [connections |-> connections]

\* A call standing in its first transport call.
Task(c, pc, conn) ==
    [call |-> c, pc |-> pc, conn |-> conn, n |-> 1, before |-> Registry]

\* ------------------------------------- connect/disconnect calls per id
\* "C?"/"D?": a connect/disconnect of the id has started; "C+", "C-", "D+",
\* "D-": it returned success or failure.  Only the prefixes of
\* connect, disconnect, connect (both connects succeeding) are kept.
Over == <<"over">>
Tracks == {<<>>, <<"C?">>, <<"C+">>, <<"C+", "D?">>, <<"C+", "D+">>,
           <<"C+", "D-">>, <<"C+", "D+", "C?">>, <<"C+", "D-", "C?">>,
           <<"C+", "D+", "C+">>, <<"C+", "D-", "C+">>}
Began(s, tag) ==
    IF s # Over /\ Append(s, tag) \in Tracks THEN Append(s, tag) ELSE Over
Ended(s, tag) ==
    IF s # Over /\ Len(s) > 0 /\ s[Len(s)] \in {"C?", "D?"}
                /\ [s EXCEPT ![Len(s)] = tag] \in Tracks
    THEN [s EXCEPT ![Len(s)] = tag] ELSE Over

NoResponse == [call |-> [op |-> "none"], raised |-> FALSE,
               text |-> [kind |-> "none"], n |-> 0,
               before |-> [connections |-> <<>>]]

\* A step that returns no response.
Quiet == last' = NoResponse

\* A call returns from its last transport call: call, whether the operation
\* raised, the text handle_call_tool returns, the number of transport calls
\* the call made, and the connections it started from.
Finish(t, outcome) ==
    /\ running' = running \ {t}
    /\ last' = [call |-> t.call, raised |-> outcome.raised,
                text |-> HandleCallTool(outcome), n |-> t.n, before |-> t.before]

\* A call returns without having made any transport call.
Answer(c, outcome) ==
    /\ running' = running
    /\ last' = [call |-> c, raised |-> outcome.raised,
                text |-> HandleCallTool(outcome), n |-> 0, before |-> Registry]

\* ------------------------------------------------------------------ Init
Init ==
    /\ phase = "load"
    /\ device_configs = <<>>
    /\ connections = <<>>
    /\ channels = [h \in Handles |-> [state |-> "unopened"]]
    /\ running = {}
    /\ last = NoResponse
    /\ connectCalled = {}
    /\ track = [id \in Ids |-> Over]

\* cli.py start: server.device_configs[device_id] = DeviceConfig(**device_config)
LoadConfig(id, p) ==
    /\ phase = "load"
    /\ device_configs' = PutConfig(device_configs, id, DeviceConfig(p))
    /\ Quiet
    /\ UNCHANGED <<phase, connections, channels, running, connectCalled, track>>

\* cli.py start: asyncio.run(server.run())
RunServer ==
    /\ phase = "load"
    /\ phase' = "serve"
    /\ Quiet
    /\ UNCHANGED <<device_configs, connections, channels, running, connectCalled, track>>

\* The parameters of the operations: required, and with a default.
Required(op) ==
    CASE op = "connect_device" ->
             {"device_id", "host", "device_type", "username", "password"}
      [] op \in {"disconnect_device", "get_device_info"} -> {"device_id"}
      [] op = "send_command" -> {"device_id", "command"}
      [] op = "send_config_commands" -> {"device_id", "commands"}
      [] OTHER -> {}
Optional(op) ==
    CASE op = "connect_device" -> {"port", "secret", "timeout"}
      [] op = "send_command" -> {"use_textfsm", "strip_prompt", "strip_command"}
      [] op = "send_config_commands" -> {"exit_config_mode"}
      [] OTHER -> {}

\* The keys of the argument bag of a call.
ArgNames(c) ==
    (DOMAIN c \ {"op", "args"})
        \cup (IF "args" \in DOMAIN c THEN DOMAIN c.args ELSE {})

\* self._op(**arguments) binds: every required parameter is given and no
\* other name than a parameter.  _list_connected_devices() is called
\* without the bag, and an unknown name calls nothing.
Binds(c) ==
    \/ c.op \in {"list_connected_devices", "no_such_tool"}
    \/ /\ Required(c.op) \subseteq ArgNames(c)
       /\ ArgNames(c) \subseteq Required(c.op) \cup Optional(c.op)

\* What every start of an operation does: handle_call_tool is entered when
\* the loop's thread is free, the previous response having been handed
\* over, and the argument bag binds to the operation's parameters.
Begin(c) ==
    /\ phase = "serve"
    /\ LoopIdle
    /\ last = NoResponse
    /\ Binds(c)
    /\ UNCHANGED phase

\* The tool calls the server can take up now: any of them once the loop is
\* free, none while a handler occupies it.
Arriving ==
    IF phase = "serve" /\ LoopIdle /\ last = NoResponse THEN Calls ELSE {}

\* The text handle_call_tool returned is handed to the client.
Deliver ==
    /\ last # NoResponse
    /\ Quiet
    /\ UNCHANGED <<phase, device_configs, connections, channels, running,
                   connectCalled, track>>

\* ------------------------------------------------------- _connect_device
\* Lines 204-229: record the configuration, build device_params, and call
\* ConnectHandler(**device_params), which blocks until the transport answers.
ConnectStart(c) ==
    /\ c.op = "connect_device"
    /\ Begin(c)
    /\ device_configs' = PutConfig(device_configs, c.device_id, DeviceConfig(c.args))
    /\ running' = running \cup {Task(c, "open", 0)}
    /\ connectCalled' = connectCalled \cup {c.device_id}
    /\ track' = [track EXCEPT ![c.device_id] = Began(@, "C?")]
    /\ Quiet
    /\ UNCHANGED <<connections, channels>>

\* Mutant: the connection the id had is closed before it is replaced.
ConnectOpenedClosingOld(t) ==
    /\ t \in running /\ t.pc = "open"
    /\ FreeHandles # {}
    /\ LET h == NewHandle
           id == t.call.device_id
           closed == IF Has(connections, id)
                     THEN [channels EXCEPT ![Get(connections, id)].state = "closed",
                                           ![Get(connections, id)].close_attempted = TRUE]
                     ELSE channels
       IN /\ channels' = [closed EXCEPT ![h] =
                 [state |-> "open", device_id |-> id, args |-> t.call.args,
                  close_attempted |-> FALSE]]
          /\ connections' = Put(connections, id, h)
          /\ running' = (running \ {t})
                 \cup {[t EXCEPT !.pc = "prompt", !.conn = h, !.n = @ + 1]}
    /\ Quiet
    /\ UNCHANGED <<phase, device_configs, connectCalled, track>>

\* ConnectHandler returned a connection: line 230 stores it, line 233 calls
\* find_prompt on it.
ConnectOpened(t) ==
    /\ t \in running /\ t.pc = "open"
    /\ FreeHandles # {}
    /\ LET h == NewHandle
           id == t.call.device_id
       IN /\ channels' = [channels EXCEPT ![h] =
                 [state |-> "open", device_id |-> id, args |-> t.call.args,
                  close_attempted |-> FALSE]]
          /\ connections' = Put(connections, id, h)
          /\ running' = (running \ {t})
                 \cup {[t EXCEPT !.pc = "prompt", !.conn = h, !.n = @ + 1]}
    /\ Quiet
    /\ UNCHANGED <<phase, device_configs, connectCalled, track>>

\* Mutant: after a first failure ConnectHandler is called once more.
ConnectOpenFailedRetrying(t, e) ==
    /\ t \in running /\ t.pc = "open"
    /\ LET id == t.call.device_id
       IN IF t.n = 1
          THEN /\ running' = (running \ {t}) \cup {[t EXCEPT !.n = @ + 1]}
               /\ Quiet
               /\ UNCHANGED track
          ELSE /\ Finish(t, Returned(ConnectFailure(id, e,
                                        ExcText(e, DeviceParams(t.call.args)))))
               /\ track' = [track EXCEPT ![id] = Ended(@, "C-")]
    /\ UNCHANGED <<phase, device_configs, connections, channels, connectCalled>>

\* ConnectHandler raised: one of the three except clauses answers.
ConnectOpenFailed(t, e) ==
    /\ t \in running /\ t.pc = "open"
    /\ LET id == t.call.device_id
       IN /\ Finish(t, Returned(ConnectFailure(id, e,
                                   ExcText(e, DeviceParams(t.call.args)))))
          /\ track' = [track EXCEPT ![id] = Ended(@, "C-")]
    /\ UNCHANGED <<phase, device_configs, connections, channels, connectCalled>>

\* find_prompt returned: the success text.
ConnectPromptOk(t) ==
    /\ t \in running /\ t.pc = "prompt"
    /\ LET id == t.call.device_id
       IN /\ Finish(t, Returned(MsgConnected(id, t.call.args.host, t.conn)))
          /\ track' = [track EXCEPT ![id] = Ended(@, "C+")]
    /\ UNCHANGED <<phase, device_configs, connections, channels, connectCalled>>

\* find_prompt raised inside the same try block.
ConnectPromptFailed(t, e) ==
    /\ t \in running /\ t.pc = "prompt"
    /\ LET id == t.call.device_id
       IN /\ Finish(t, Returned(ConnectFailure(id, e,
                                   ExcText(e, DeviceParams(channels[t.conn].args)))))
          /\ track' = [track EXCEPT ![id] = Ended(@, "C-")]
    /\ UNCHANGED <<phase, device_configs, connections, channels, connectCalled>>

\* ---------------------------------------------------- _disconnect_device
\* Mutant: without the early return the lookup of line 265 raises KeyError
\* and the except clause answers.
DisconnectUnchecked(c) ==
    /\ c.op = "disconnect_device"
    /\ Begin(c)
    /\ ~IsConnected(c.device_id)
    /\ Answer(c, Returned(MsgDisconnectError(c.device_id, {})))
    /\ track' = [track EXCEPT ![c.device_id] = Over]
    /\ UNCHANGED <<device_configs, connections, channels, connectCalled>>

\* Lines 258-262: nothing to disconnect.
DisconnectNotConnected(c) ==
    /\ c.op = "disconnect_device"
    /\ Begin(c)
    /\ ~IsConnected(c.device_id)
    /\ Answer(c, Returned(MsgNotConnected(c.device_id)))
    /\ track' = [track EXCEPT ![c.device_id] = Over]
    /\ UNCHANGED <<device_configs, connections, channels, connectCalled>>

\* Lines 265-266: connection.disconnect() is called.
DisconnectStart(c) ==
    /\ c.op = "disconnect_device"
    /\ Begin(c)
    /\ IsConnected(c.device_id)
    /\ IF Has(connections, c.device_id)
       THEN LET h == Get(connections, c.device_id)
            IN /\ running' = running \cup {Task(c, "close", h)}
               /\ channels' = [channels EXCEPT ![h].close_attempted = TRUE]
               /\ track' = [track EXCEPT ![c.device_id] = Began(@, "D?")]
               /\ Quiet
       ELSE /\ Answer(c, Returned(MsgDisconnectError(c.device_id, {})))
            /\ track' = [track EXCEPT ![c.device_id] = Over]
            /\ UNCHANGED channels
    /\ UNCHANGED <<device_configs, connections, connectCalled>>

\* Mutant: a successful disconnect also forgets the configuration.
DisconnectClosedForgetting(t) ==
    /\ t \in running /\ t.pc = "close"
    /\ LET id == t.call.device_id
       IN /\ channels' = [channels EXCEPT ![t.conn].state = "closed"]
          /\ connections' = Del(connections, id)
          /\ device_configs' = [x \in (DOMAIN device_configs) \ {id} |-> device_configs[x]]
          /\ Finish(t, Returned(MsgDisconnected(id)))
          /\ track' = [track EXCEPT ![id] = Ended(@, "D+")]
    /\ UNCHANGED <<phase, connectCalled>>

\* disconnect() returned: line 267 deletes the entry (KeyError if another
\* call deleted it meanwhile, caught by the except clause).
DisconnectClosed(t) ==
    /\ t \in running /\ t.pc = "close"
    /\ LET id == t.call.device_id
       IN /\ channels' = [channels EXCEPT ![t.conn].state = "closed"]
          /\ IF Has(connections, id)
             THEN /\ connections' = Del(connections, id)
                  /\ Finish(t, Returned(MsgDisconnected(id)))
                  /\ track' = [track EXCEPT ![id] = Ended(@, "D+")]
             ELSE /\ connections' = connections
                  /\ Finish(t, Returned(MsgDisconnectError(id, {})))
                  /\ track' = [track EXCEPT ![id] = Ended(@, "D-")]
    /\ UNCHANGED <<phase, device_configs, connectCalled>>

\* disconnect() raised: line 267 is skipped.  Whether the channel is still
\* open afterwards is the transport's business.
DisconnectCloseFailed(t, e, still_open) ==
    /\ t \in running /\ t.pc = "close"
    /\ LET id == t.call.device_id
       IN /\ channels' = [channels EXCEPT ![t.conn].state =
                             IF still_open THEN @ ELSE "closed"]
          /\ Finish(t, Returned(MsgDisconnectError(id,
                                   ExcText(e, DeviceParams(channels[t.conn].args)))))
          /\ track' = [track EXCEPT ![id] = Ended(@, "D-")]
    /\ UNCHANGED <<phase, device_configs, connections, connectCalled>>

\* Mutant: an id with a stored configuration is connected on the way.
ConnectFirstAutoConnect(c) ==
    /\ c.op \in {"send_command", "send_config_commands", "get_device_info"}
    /\ Begin(c)
    /\ ~IsConnected(c.device_id)
    /\ Answer(c, Returned(MsgConnectFirst(c.device_id)))
    /\ IF c.device_id \in DOMAIN device_configs /\ FreeHandles # {}
       THEN /\ channels' = [channels EXCEPT ![NewHandle] =
                   [state |-> "open", device_id |-> c.device_id,
                    args |-> device_configs[c.device_id],
                    close_attempted |-> FALSE]]
            /\ connections' = Put(connections, c.device_id, NewHandle)
       ELSE UNCHANGED <<connections, channels>>
    /\ UNCHANGED <<device_configs, connectCalled, track>>

\* Lines 283-287, 318-322, 344-348: the "connect first" answer, without any
\* transport call.
ConnectFirst(c) ==
    /\ c.op \in {"send_command", "send_config_commands", "get_device_info"}
    /\ Begin(c)
    /\ ~IsConnected(c.device_id)
    /\ Answer(c, Returned(MsgConnectFirst(c.device_id)))
    /\ UNCHANGED <<device_configs, connections, channels, connectCalled, track>>

\* --------------------------------------------------------- _send_command
\* Lines 290-296: connection.send_command(...) is called.
SendCommandStart(c) ==
    /\ c.op = "send_command"
    /\ Begin(c)
    /\ IsConnected(c.device_id)
    /\ IF Has(connections, c.device_id)
       THEN /\ running' = running \cup
                   {Task(c, "command", Get(connections, c.device_id))}
            /\ Quiet
       ELSE Answer(c, Returned(MsgCommandError(c.device_id, {})))
    /\ UNCHANGED <<device_configs, connections, channels, connectCalled, track>>

\* send_command returned text, or (with use_textfsm) a list of records.
SendCommandOk(t, shape) ==
    /\ t \in running /\ t.pc = "command"
    /\ shape = "list" => t.call.use_textfsm
    /\ LET output == [shape |-> shape, command |-> t.call.command, conn |-> t.conn]
       IN Finish(t, Returned(MsgCommand(t.call.command,
                                        FormatOutput(t.call.use_textfsm, output))))
    /\ UNCHANGED <<phase, device_configs, connections, channels, connectCalled, track>>

\* Mutant: a failed command drops the session of the id.
SendCommandFailedDropping(t, e) ==
    /\ t \in running /\ t.pc = "command"
    /\ connections' = Del(connections, t.call.device_id)
    /\ Finish(t, Returned(MsgCommandError(t.call.device_id,
                                          ExcText(e, DeviceParams(channels[t.conn].args)))))
    /\ UNCHANGED <<phase, device_configs, channels, connectCalled, track>>

\* send_command raised: the except clause of lines 309-313 answers.
SendCommandFailed(t, e) ==
    /\ t \in running /\ t.pc = "command"
    /\ Finish(t, Returned(MsgCommandError(t.call.device_id,
                                          ExcText(e, DeviceParams(channels[t.conn].args)))))
    /\ UNCHANGED <<phase, device_configs, connections, channels, connectCalled, track>>

\* ------------------------------------------------- _send_config_commands
\* Lines 325-329: connection.send_config_set(commands, ...) is called.
SendConfigStart(c) ==
    /\ c.op = "send_config_commands"
    /\ Begin(c)
    /\ IsConnected(c.device_id)
    /\ IF Has(connections, c.device_id)
       THEN /\ running' = running \cup
                   {Task(c, "config", Get(connections, c.device_id))
                        @@ [sent |-> c.commands]}
            /\ Quiet
       ELSE Answer(c, Returned(MsgConfigError(c.device_id, {})))
    /\ UNCHANGED <<device_configs, connections, channels, connectCalled, track>>

SendConfigOk(t) ==
    /\ t \in running /\ t.pc = "config"
    /\ LET output == [applied |-> t.sent, conn |-> t.conn]
       IN Finish(t, Returned(MsgConfig(JoinNL(t.call.commands), output)))
    /\ UNCHANGED <<phase, device_configs, connections, channels, connectCalled, track>>

SendConfigFailed(t, e) ==
    /\ t \in running /\ t.pc = "config"
    /\ Finish(t, Returned(MsgConfigError(t.call.device_id,
                                         ExcText(e, DeviceParams(channels[t.conn].args)))))
    /\ UNCHANGED <<phase, device_configs, connections, channels, connectCalled, track>>

\* ------------------------------------------------------ _get_device_info
\* Lines 351-355: the connection and the config are read, find_prompt is
\* called.  A missing config is a KeyError inside the try block.
GetInfoStart(c) ==
    /\ c.op = "get_device_info"
    /\ Begin(c)
    /\ IsConnected(c.device_id)
    /\ IF Has(connections, c.device_id) /\ c.device_id \in DOMAIN device_configs
       THEN /\ running' = running \cup
                   {Task(c, "info", Get(connections, c.device_id))
                        @@ [config |-> device_configs[c.device_id]]}
            /\ Quiet
       ELSE /\ Answer(c, Returned(MsgInfoError(c.device_id, {})))
    /\ UNCHANGED <<device_configs, connections, channels, connectCalled, track>>

GetInfoOk(t) ==
    /\ t \in running /\ t.pc = "info"
    /\ LET device_info ==
               [device_id |-> t.call.device_id, host |-> t.config.host,
                device_type |-> t.config.device_type, port |-> t.config.port,
                prompt |-> t.conn, connected |-> TRUE,
                session_timeout |-> t.config.session_timeout]
       IN Finish(t, Returned(MsgInfo(device_info)))
    /\ UNCHANGED <<phase, device_configs, connections, channels, connectCalled, track>>

GetInfoFailed(t, e) ==
    /\ t \in running /\ t.pc = "info"
    /\ Finish(t, Returned(MsgInfoError(t.call.device_id,
                                       ExcText(e, DeviceParams(channels[t.conn].args)))))
    /\ UNCHANGED <<phase, device_configs, connections, channels, connectCalled, track>>

\* ----------------------------------------------- _list_connected_devices
\* Lines 380-384.
ListNone(c) ==
    /\ c.op = "list_connected_devices"
    /\ Begin(c)
    /\ connections = <<>>
    /\ Answer(c, Returned(MsgNoDevices))
    /\ UNCHANGED <<device_configs, connections, channels, connectCalled, track>>

\* Mutant: no id is found to have a config, every entry is skipped.
ScanNone(i) == Len(connections) + 1

\* The first position at or after i whose id has a config (line 389), or
\* one past the end.
ScanTo(i) ==
    LET with == {j \in i..Len(connections) : connections[j].id \in DOMAIN device_configs}
    IN IF with = {} THEN Len(connections) + 1
       ELSE CHOOSE j \in with : \A k \in with : j <= k

\* The loop of lines 387-395 standing in the find_prompt call of position j.
ListAt(t, j, acc, n) ==
    [call |-> t.call, pc |-> "list", conn |-> connections[j].conn, n |-> n,
     before |-> t.before, i |-> j, acc |-> acc, size |-> t.size,
     device_id |-> connections[j].id,
     config |-> device_configs[connections[j].id]]

ListStart(c) ==
    /\ c.op = "list_connected_devices"
    /\ Begin(c)
    /\ connections # <<>>
    /\ LET j == ScanTo(1)
           t == [call |-> c, size |-> Len(connections), before |-> Registry]
       IN IF j <= Len(connections)
          THEN /\ running' = running \cup {ListAt(t, j, <<>>, 1)}
               /\ Quiet
          ELSE Answer(c, Returned(MsgList(<<>>)))
    /\ UNCHANGED <<device_configs, connections, channels, connectCalled, track>>

\* find_prompt returned: the entry is appended and the iterator advances;
\* a dict whose size changed meanwhile makes the iterator raise RuntimeError,
\* which no except clause of the operation catches.
ListPromptOk(t) ==
    /\ t \in running /\ t.pc = "list"
    /\ LET acc == Append(t.acc, [device_id |-> t.device_id, host |-> t.config.host,
                                 device_type |-> t.config.device_type,
                                 prompt |-> t.conn])
           j == ScanTo(t.i + 1)
       IN IF Len(connections) # t.size
          THEN Finish(t, Raised({}))
          ELSE IF j <= Len(connections)
          THEN /\ running' = (running \ {t}) \cup {ListAt(t, j, acc, t.n + 1)}
               /\ Quiet
          ELSE Finish(t, Returned(MsgList(acc)))
    /\ UNCHANGED <<phase, device_configs, connections, channels, connectCalled, track>>

\* find_prompt raised: the exception leaves _list_connected_devices and is
\* caught by handle_call_tool.
ListPromptFailed(t, e) ==
    /\ t \in running /\ t.pc = "list"
    /\ Finish(t, Raised(ExcText(e, DeviceParams(channels[t.conn].args))))
    /\ UNCHANGED <<phase, device_configs, connections, channels, connectCalled, track>>

\* -------------------------------------------------------- handle_call_tool
\* Line 193: raise ValueError("Unknown tool"), caught at line 194.
UnknownTool(c) ==
    /\ c.op = "no_such_tool"
    /\ Begin(c)
    /\ Answer(c, Returned(HandleCallTool(Raised({}))))
    /\ UNCHANGED <<device_configs, connections, channels, connectCalled, track>>

\* Lines 181-189: self._op(**arguments) raises TypeError before the operation
\* runs, caught at line 194.
BadArguments(c) ==
    /\ phase = "serve" /\ LoopIdle /\ last = NoResponse
    /\ ~Binds(c)
    /\ Answer(c, Returned(HandleCallTool(Raised({}))))
    /\ UNCHANGED <<phase, device_configs, connections, channels, connectCalled, track>>

Next ==
    \/ \E id \in Ids, p \in ConnectArgs : LoadConfig(id, p)
    \/ RunServer
    \/ \E c \in Arriving : ConnectStart(c)
    \/ \E t \in running : ConnectOpened(t)
    \/ \E t \in running, e \in Excs : ConnectOpenFailed(t, e)
    \/ \E t \in running : ConnectPromptOk(t)
    \/ \E t \in running, e \in Excs : ConnectPromptFailed(t, e)
    \/ \E c \in Arriving : DisconnectNotConnected(c)
    \/ \E c \in Arriving : DisconnectStart(c)
    \/ \E t \in running : DisconnectClosed(t)
    \/ \E t \in running, e \in AnyExcs, still_open \in BOOLEAN :
           DisconnectCloseFailed(t, e, still_open)
    \/ \E c \in Arriving : ConnectFirst(c)
    \/ \E c \in Arriving : SendCommandStart(c)
    \/ \E t \in running, shape \in {"str", "list"} : SendCommandOk(t, shape)
    \/ \E t \in running, e \in AnyExcs : SendCommandFailed(t, e)
    \/ \E c \in Arriving : SendConfigStart(c)
    \/ \E t \in running : SendConfigOk(t)
    \/ \E t \in running, e \in AnyExcs : SendConfigFailed(t, e)
    \/ \E c \in Arriving : GetInfoStart(c)
    \/ \E t \in running : GetInfoOk(t)
    \/ \E t \in running, e \in AnyExcs : GetInfoFailed(t, e)
    \/ \E c \in Arriving : ListNone(c)
    \/ \E c \in Arriving : ListStart(c)
    \/ \E t \in running : ListPromptOk(t)
    \/ \E t \in running, e \in AnyExcs : ListPromptFailed(t, e)
    \/ \E c \in Arriving : UnknownTool(c)
    \/ \E c \in Arriving : BadArguments(c)
    \/ Deliver

Spec == Init /\ [][Next]_vars

\* The same program, with the connect/disconnect calls of the watched ids
\* followed from the start.
InitWatching ==
    /\ phase = "load"
    /\ device_configs = <<>>
    /\ connections = <<>>
    /\ channels = [h \in Handles |-> [state |-> "unopened"]]
    /\ running = {}
    /\ last = NoResponse
    /\ connectCalled = {}
    /\ track = [id \in Ids |-> IF id \in Watched THEN <<>> ELSE Over]

SpecWatching == InitWatching /\ [][Next]_vars

\* ---------------------------------------------------------------- claims
\* The session of id in a connections dict; 0 when it has none.
Entry(d, id) == IF Has(d, id) THEN Get(d, id) ELSE 0

\* The channels opened for id that are still open.
LiveFor(id) ==
    {h \in Handles : channels[h].state = "open" /\ channels[h].device_id = id}

ConnectFailureKinds ==
    {"Authentication failed for device", "Connection timeout for device",
     "Failed to connect to device"}

NeedSession == {"send_command", "send_config_commands", "get_device_info"}

\* C1: in every reachable state every device id that has an entry in
\* connections also has an entry in device_configs.
C1_SessionsHaveConfigs == Keys(connections) \subseteq DOMAIN device_configs

\* Both ids connected, after a connect that failed on one of them.
C1_Witness ==
    /\ Keys(connections) = Ids
    /\ last.call.op = "connect_device"
    /\ last.text.kind \in ConnectFailureKinds

\* C2 (as claimed): a connect call that returns a failure result leaves the
\* session of its id exactly as it was before the call.
C2_FailedConnectKeepsSession ==
    (last.call.op = "connect_device" /\ last.text.kind \in ConnectFailureKinds)
        => Entry(connections, last.call.device_id)
               = Entry(last.before.connections, last.call.device_id)

\* C3 (as claimed): after disconnect(id) on an id that had a session returns,
\* with success or with failure, id has no session.
C3_DisconnectRemovesSession ==
    (last.call.op = "disconnect_device"
        /\ Has(last.before.connections, last.call.device_id))
        => ~Has(connections, last.call.device_id)

\* C4 (as claimed): no operation ever raises; each returns a result.
C4_NeverRaises == ~last.raised

\* C5: calls on the same device id run one at a time: no two calls are in
\* flight on the same id or on the same connection, and a send_command in
\* flight works on the connection the registry holds for its id, on which
\* no disconnect is in flight.
C5_Serialized ==
    /\ \A t1, t2 \in running :
           t1 # t2 =>
               /\ ~(t1.conn # 0 /\ t1.conn = t2.conn)
               /\ ~("device_id" \in DOMAIN t1.call /\ "device_id" \in DOMAIN t2.call
                      /\ t1.call.device_id = t2.call.device_id)
    /\ \A t \in running :
           t.pc = "command" =>
               /\ Entry(connections, t.call.device_id) = t.conn
               /\ ~\E u \in running : u.pc = "close" /\ u.conn = t.conn

\* A send_command in flight on one id while the other id is connected too.
C5_Witness ==
    /\ Keys(connections) = Ids
    /\ \E t \in running : t.pc = "command"

\* The start of call c, whichever branch it takes.
StartOf(c) ==
    \/ ConnectStart(c)
    \/ DisconnectNotConnected(c)
    \/ DisconnectStart(c)
    \/ ConnectFirst(c)
    \/ SendCommandStart(c)
    \/ SendConfigStart(c)
    \/ GetInfoStart(c)

\* C6 (as claimed): while a call on one id is inside a transport call, a
\* call on another id can start.
C6_OtherIdProceeds ==
    \A t \in running : \A c \in Calls :
        ("device_id" \in DOMAIN t.call /\ "device_id" \in DOMAIN c
            /\ c.device_id # t.call.device_id)
        => ENABLED StartOf(c)

\* C7 (as claimed): no failure text contains a password or secret given to
\* connect.
AllCredentials == UNION {Credentials(DeviceParams(p)) : p \in ConnectArgs}
C7_NoCredentialInFailure ==
    "e" \in DOMAIN last.text => last.text.e \cap AllCredentials = {}

\* C8: an id never passed to connect has no session, and send_command,
\* send_config_commands and get_device_info on it answer "connect first".
C8_NeverConnected ==
    \A id \in Ids \ connectCalled :
        /\ ~Has(connections, id)
        /\ (last.call.op \in NeedSession /\ last.call.device_id = id)
               => /\ last.text = [kind |-> "is not connected. Please connect first.",
                                   device_id |-> id]
                  /\ ~last.raised
                  /\ last.n = 0

\* get_device_info on a preloaded id never passed to connect, the other id
\* being connected.
C8_Witness ==
    /\ last.call.op = "get_device_info"
    /\ last.call.device_id \notin connectCalled
    /\ last.call.device_id \in DOMAIN device_configs
    /\ connections # <<>>

C10_DisconnectNotConnected ==
    [][\A c \in Calls :
         (c.op = "disconnect_device" /\ ~Has(connections, c.device_id)
             /\ StartOf(c))
         => /\ last' = [call |-> c, raised |-> FALSE,
                        text |-> [kind |-> "is not connected",
                                  device_id |-> c.device_id],
                        n |-> 0,
                        before |-> Registry]
            /\ running' = running
            /\ UNCHANGED <<device_configs, connections, channels>>
            /\ ~Has(connections', c.device_id)]_vars

\* The answer given for a preloaded id while the other id is connected.
C10_Witness ==
    /\ last.call.op = "disconnect_device"
    /\ last.text.kind = "is not connected"
    /\ last.call.device_id \in DOMAIN device_configs
    /\ connections # <<>>

C12_AuthFailureKeepsConfig ==
    [][\A t \in running, e \in Excs :
         ConnectOpenFailed(t, e) =>
             LET id == t.call.device_id
             IN /\ ~last'.raised
                /\ last'.n = 1
                /\ last'.text.device_id = id
                /\ (e.type = "NetmikoAuthenticationException")
                       <=> (last'.text.kind = "Authentication failed for device")
                /\ (e.type = "NetmikoTimeoutException")
                       <=> (last'.text.kind = "Connection timeout for device")
                /\ id \in DOMAIN device_configs'
                /\ device_configs'[id] = DeviceConfig(t.call.args)
                /\ connections' = connections
                /\ ~Has(t.before.connections, id) => ~Has(connections', id)]_vars

\* An authentication failure on an id without a session, whose stored
\* configuration is the attempted one, while the other id is connected.
C12_Witness ==
    /\ last.call.op = "connect_device"
    /\ last.text.kind = "Authentication failed for device"
    /\ last.n = 1
    /\ ~Has(connections, last.call.device_id)
    /\ device_configs[last.call.device_id] = DeviceConfig(last.call.args)
    /\ connections # <<>>

\* The literal parts of the texts mcp_server.py returns.
ResultKinds ==
    ConnectFailureKinds \cup
    {"Successfully connected to device", "is not connected",
     "Successfully disconnected from device", "Error disconnecting from device",
     "is not connected. Please connect first.", "Command",
     "Error executing command on device", "Configuration commands executed",
     "Error executing config commands on device", "device_info",
     "Error getting device info for", "No devices currently connected",
     "connected_devices", "Error"}

\* What handle_call_tool does with call c, whichever branch it takes.
Dispatch(c) ==
    \/ StartOf(c)
    \/ ListNone(c)
    \/ ListStart(c)
    \/ UnknownTool(c)
    \/ BadArguments(c)

\* C13: the dispatcher takes up every call that arrives, whatever its name
\* and argument bag; every response is one of the result texts, and an
\* exception that escapes the operation is answered with the "Error" text;
\* an unknown name and an argument bag that does not bind are answered
\* with the "Error" text and change neither device_configs nor connections
\* (nor the channels, nor the running calls).
C13_DispatcherNeverRaises ==
    /\ [](\A c \in Arriving : ENABLED Dispatch(c))
    /\ [][/\ last' # NoResponse =>
                 /\ last'.text.kind \in ResultKinds
                 /\ last'.raised => last'.text.kind = "Error"
          /\ \A c \in Arriving :
                 (UnknownTool(c) \/ BadArguments(c)) =>
                     /\ last'.call = c
                     /\ last'.text.kind = "Error"
                     /\ UNCHANGED <<device_configs, connections, channels, running>>]_vars

\* An exception that escaped an operation has been answered, both ids
\* being connected.
C13_Witness ==
    /\ last.raised
    /\ last.text.kind = "Error"
    /\ Keys(connections) = Ids

\* Connection h is held by the connections dict d or by a running call of r.
Referenced(d, r, h) ==
    \/ \E i \in 1..Len(d) : d[i].conn = h
    \/ \E t \in r : t.conn = h

\* C14: when ConnectHandler returns for an id that already has a session,
\* connections[id] becomes the new connection and the previous one is left
\* exactly as it was (no disconnect is called on it) and is no longer in
\* connections; the find_prompt that completes the connect changes neither;
\* and an open connection that nothing references is never touched again,
\* so it stays open and unreferenced.
C14_ReplacedSessionLeaks ==
    [][/\ \A t \in running :
              (ConnectOpened(t) /\ Has(connections, t.call.device_id)) =>
                  LET id == t.call.device_id
                      old == Get(connections, id)
                      new == Get(connections', id)
                  IN /\ new # old
                     /\ channels[new].state = "unopened"
                     /\ channels'[new].state = "open"
                     /\ channels'[old] = channels[old]
                     /\ \A i \in 1..Len(connections') : connections'[i].conn # old
       /\ \A t \in running :
              ConnectPromptOk(t) =>
                  /\ connections' = connections
                  /\ channels' = channels
                  /\ Entry(connections', t.call.device_id) = t.conn
       /\ \A h \in Handles :
              (channels[h].state = "open" /\ ~Referenced(connections, running, h)) =>
                  /\ channels'[h] = channels[h]
                  /\ ~Referenced(connections', running', h)]_vars

\* A connect has succeeded on an id whose previous connection was open and
\* never asked to close: it is still so, and connections holds another one.
C14_Witness ==
    /\ last.call.op = "connect_device"
    /\ last.text.kind = "Successfully connected to device"
    /\ LET id == last.call.device_id
           old == Entry(last.before.connections, id)
       IN /\ old # 0
          /\ channels[old].state = "open"
          /\ ~channels[old].close_attempted
          /\ Entry(connections, id) # old

\* C15 (as claimed): at any time every device id has at most one open
\* connection, that connection is the one connections holds for the id, and
\* no open connection exists outside connections.
C15_OneLiveSessionPerId ==
    \A id \in Ids :
        /\ Cardinality(LiveFor(id)) <= 1
        /\ \A h \in LiveFor(id) : Entry(connections, id) = h

\* C16: an entry of connections disappears only in the step in which a
\* disconnect_device call on that id returns from disconnect(); no other
\* step, whatever the operation, the id or the outcome of its transport
\* call, removes an entry.
C16_OnlyDisconnectRemoves ==
    [][\A id \in Ids :
         (Has(connections, id) /\ ~Has(connections', id)) =>
             \E t \in running :
                 /\ t.call.op = "disconnect_device"
                 /\ t.call.device_id = id
                 /\ DisconnectClosed(t)]_vars

\* A send_command whose transport call raised has returned and the
\* session of its id is still in connections.
C16_Witness ==
    /\ last.call.op = "send_command"
    /\ last.text.kind = "Error executing command on device"
    /\ Has(connections, last.call.device_id)
    /\ Entry(connections, last.call.device_id)
           = Entry(last.before.connections, last.call.device_id)

C18_ConnectFirstNoAutoConnect ==
    [][\A c \in Arriving :
         (c.op \in NeedSession /\ ~Has(connections, c.device_id) /\ Dispatch(c))
         => /\ last' = [call |-> c, raised |-> FALSE,
                        text |-> [kind |-> "is not connected. Please connect first.",
                                  device_id |-> c.device_id],
                        n |-> 0,
                        before |-> Registry]
            /\ running' = running
            /\ UNCHANGED <<device_configs, connections, channels>>]_vars

\* The answer given for an id that was connected and then disconnected,
\* while a connection could still be opened.
C18_Witness ==
    /\ last.call.op \in NeedSession
    /\ last.text.kind = "is not connected. Please connect first."
    /\ last.call.device_id \in connectCalled
    /\ last.call.device_id \in DOMAIN device_configs
    /\ ~Has(connections, last.call.device_id)
    /\ \E h \in Handles : /\ channels[h].state = "closed"
                          /\ channels[h].device_id = last.call.device_id
    /\ FreeHandles # {}

\* C19: while list_connected_devices stands in a find_prompt call,
\* connections is and stays what it was when the call started; a
\* find_prompt that returns never ends the call with an exception (the
\* iteration never finds the dict changed in size); and the ids of a
\* returned list are exactly the keys connections had when the call started,
\* which are still its keys when the call returns.
C19_ListSnapshot ==
    [][/\ \A t \in running :
              t.pc = "list" =>
                  /\ connections = t.before.connections
                  /\ connections' = connections
                  /\ Len(connections) = t.size
       /\ \A t \in running : ListPromptOk(t) => ~last'.raised
       /\ (last'.call.op = "list_connected_devices"
              /\ last'.text.kind = "connected_devices") =>
              LET ids == {last'.text.json[i].device_id : i \in 1..Len(last'.text.json)}
              IN /\ ids = Keys(last'.before.connections)
                 /\ ids = Keys(connections')]_vars

\* The call is half way through two sessions: one entry collected, the
\* find_prompt of the second in flight.
C19_Witness ==
    \E t \in running :
        /\ t.pc = "list"
        /\ t.i = Cardinality(Ids)
        /\ Len(t.acc) = 1
        /\ Len(connections) = Cardinality(Ids)

\* The transport call of running call t raised.
TransportFailed(t) ==
    \/ \E e \in Excs : ConnectOpenFailed(t, e) \/ ConnectPromptFailed(t, e)
    \/ \E e \in AnyExcs :
           \/ \E still_open \in BOOLEAN : DisconnectCloseFailed(t, e, still_open)
           \/ SendCommandFailed(t, e)
           \/ SendConfigFailed(t, e)
           \/ GetInfoFailed(t, e)
           \/ ListPromptFailed(t, e)

\* C20: a transport call that raises ends its call in that very step, with
\* one response and no further transport call; a call standing in
\* ConnectHandler has made no other transport call, and a step opens at most
\* one channel, for a call that stood in ConnectHandler; a connect call
\* answers after one ConnectHandler call, followed by one find_prompt when
\* it succeeded; send_command, send_config_commands and disconnect_device
\* answer after at most one transport call.
C20_NoRetry ==
    [][/\ \A t \in running :
              TransportFailed(t) =>
                  /\ running' = running \ {t}
                  /\ last'.call = t.call
                  /\ last'.n = t.n
                  /\ last'.text.kind # "none"
       /\ \A t \in running' : t.pc = "open" => t.n = 1
       /\ LET opened == {h \in Handles : channels[h].state = "unopened"
                                          /\ channels'[h].state # "unopened"}
          IN /\ Cardinality(opened) <= 1
             /\ opened # {} => \E t \in running : t.pc = "open" /\ ConnectOpened(t)
       /\ (last'.call.op = "connect_device" /\ last'.text.kind # "Error") =>
              /\ last'.n \in {1, 2}
              /\ last'.text.kind = "Successfully connected to device" => last'.n = 2
       /\ last'.call.op \in {"send_command", "send_config_commands",
                             "disconnect_device"} => last'.n <= 1]_vars

\* A connect whose ConnectHandler call timed out has answered after that
\* single call, the other id being connected.
C20_Witness ==
    /\ last.call.op = "connect_device"
    /\ last.text.kind = "Connection timeout for device"
    /\ last.n = 1
    /\ running = {}
    /\ connections # <<>>

\* The lines of a chr(10)-joined text: what stands between the separators.
Lines(joined) == [i \in 1..((Len(joined) + 1) \div 2) |-> joined[2 * i - 1]]

\* C21: a send_config_commands call standing in send_config_set has handed
\* the transport the command list it was called with, and the list reported
\* in its result text, line by line, as well as the list the transport
\* applied, are that list: same commands, same order, same length.
C21_ConfigCommandsInOrder ==
    /\ \A t \in running : t.pc = "config" => t.sent = t.call.commands
    /\ (last.call.op = "send_config_commands"
           /\ last.text.kind = "Configuration commands executed") =>
           /\ Lines(last.text.commands) = last.call.commands
           /\ \A i \in 1..Len(last.text.commands) :
                  (i % 2 = 0) => last.text.commands[i] = "\n"
           /\ last.text.output.applied = last.call.commands
           /\ last.n = 1

\* Both orders of the same two commands have their case: the list
\* <<"conf b", "conf a">> has been executed and reported.
C21_Witness ==
    /\ last.call.op = "send_config_commands"
    /\ last.text.kind = "Configuration commands executed"
    /\ last.call.commands = <<"conf b", "conf a">>
    /\ Len(last.text.commands) = 3

\* C22 (as claimed): whenever no call is running, for every id in
\* connections, device_configs[id] has the host, device_type and port the
\* connection held for the id was opened with.
C22_ConfigMatchesSession ==
    running = {} =>
        \A i \in 1..Len(connections) :
            LET id == connections[i].id
                opened == channels[connections[i].conn].args
            IN /\ id \in DOMAIN device_configs
               /\ device_configs[id].host = opened.host
               /\ device_configs[id].device_type = opened.device_type
               /\ device_configs[id].port = opened.port

\* C23 (as claimed): a call never enters a transport call (find_prompt,
\* send_command, send_config_set, or another disconnect) on a connection on
\* which disconnect() has already been called; so after a disconnect whose
\* close raised, later calls on the id do not use that connection.
C23_NoCallAfterClose ==
    [][\A t \in running' \ running :
         t.conn # 0 =>
             \/ channels[t.conn].state = "unopened"
             \/ ~channels[t.conn].close_attempted]_vars

\* The configuration of id in a device_configs dict; None when it has none.
ConfigOf(d, id) == IF id \in DOMAIN d THEN d[id] ELSE None

\* What a step of call c may change of the registry: connect_device and
\* disconnect_device the slots of their own id only, any other call nothing.
Frame(c) ==
    IF c.op \in {"connect_device", "disconnect_device"}
    THEN \A b \in Ids \ {c.device_id} :
             /\ ConfigOf(device_configs', b) = ConfigOf(device_configs, b)
             /\ Entry(connections', b) = Entry(connections, b)
    ELSE /\ device_configs' = device_configs
         /\ connections' = connections

\* C24: every step of a call, the one that enters a transport call, the one
\* in which a transport call returns or raises, and the one that answers,
\* stays within the frame of the call: a connect or a disconnect of id A leaves the configuration and the
\* session of every other id as they are, and send_command,
\* send_config_commands, get_device_info and list_connected_devices leave
\* device_configs and connections as they are, whatever the outcome.
C24_OnlyOwnSlots ==
    [][/\ \A t \in running' \ running : Frame(t.call)
       /\ \A t \in running \ running' : Frame(t.call)
       /\ last' # NoResponse => Frame(last'.call)]_vars

\* A disconnect of one id has succeeded and the other id still has its
\* session, the one it had before the call.
C24_Witness ==
    /\ last.call.op = "disconnect_device"
    /\ last.text.kind = "Successfully disconnected from device"
    /\ \E b \in Ids \ {last.call.device_id} :
           /\ Has(connections, b)
           /\ Entry(connections, b) = Entry(last.before.connections, b)
           /\ b \in DOMAIN device_configs

====
